---------------------------- MODULE Spec2Model ----------------------------
(***************************************************************************)
(* Kanban board (drag-and-drop): the four in-memory column arrays, the     *)
(* rendered lists of the four columns, the four localStorage slots and the *)
(* drag state, with one action per event handler of the script.            *)
(*                                                                         *)
(* Texts are TLA+ strings; a character is a string of length 1.  Indexes   *)
(* (array indexes, element ids, column numbers) are 0-based as in the      *)
(* script; sequences are 1-based, so index i is element i + 1.             *)
(***************************************************************************)
EXTENDS Integers, Sequences, FiniteSets, TLC

\* ------------------------------------------------------------------ bounds
\* Number of board-changing gestures (typing, add, drop, page load) in a run.
MaxOps == 2

\* ----------------------------------------------------------------- state
VARIABLES
  listArrays,     \* the four arrays (backlogListArray .. onHoldListArray)
  listColumns,    \* the children of the four .drag-item-list elements
  localStorage,   \* the four slots
  updatedOnLoad,
  draggedItem,    \* undefined, an element of a list, or a removed element
  currentColumn,  \* -1: undefined
  lastOp,         \* the handler that ran last and what it did
  ops             \* gestures so far

vars == <<listArrays, listColumns, localStorage, updatedOnLoad, draggedItem,
          currentColumn, lastOp, ops>>

\* ------------------------------------------------------- program constants
MAX_CHARS == 100

Cols == 0 .. 3

\* The columns whose items the user edits, drags and adds to, and the columns
\* the user drags over.
EditCols == {0}
DragCols == {0}
EnterCols == {0, 1}
AddCols == {0}

arrayNames == <<"backlog", "progress", "complete", "onHold">>

\* The seed board of getSavedColumns.
SeedBoard ==
  [c \in Cols |->
     CASE c = 0 -> <<"Release the course", "Sit back and relax">>
       [] c = 1 -> <<"Work on projects", "Listen to music">>
       [] c = 2 -> <<"Being cool", "Getting stuff done">>
       [] c = 3 -> <<"Being uncool">>]

\* ---------------------------------------------------------------- strings
CharAt(s, i) == SubSeq(s, i, i)

\* Characters String.prototype.trim removes (the ones the model types).
WhiteSpace == {" "}

RECURSIVE TrimStart(_)
TrimStart(s) ==
  IF s = "" THEN ""
  ELSE IF CharAt(s, 1) \in WhiteSpace THEN TrimStart(SubSeq(s, 2, Len(s)))
  ELSE s

RECURSIVE TrimEnd(_)
TrimEnd(s) ==
  IF s = "" THEN ""
  ELSE IF CharAt(s, Len(s)) \in WhiteSpace THEN TrimEnd(SubSeq(s, 1, Len(s) - 1))
  ELSE s

\* String.prototype.trim
Trim(s) == TrimEnd(TrimStart(s))

\* String.prototype.substring(0, n)
Substring0(s, n) == SubSeq(s, 1, IF n < Len(s) THEN n ELSE Len(s))

RECURSIVE Repeat(_, _)
Repeat(ch, n) ==
  IF n = 0 THEN ""
  ELSE IF n % 2 = 0 THEN Repeat(ch, n \div 2) \o Repeat(ch, n \div 2)
  ELSE ch \o Repeat(ch, n - 1)

\* ---------------------------------------------------------- JS values
\* A slot of a JS array inside a handler: a hole (a deleted slot), null, or
\* a string.  Between handlers the arrays hold strings only and the state
\* keeps them as plain sequences of strings.
Hole == <<>>
Null == <<"null">>
Str(t) == <<"str", t>>
IsStr(v) == Len(v) = 2

Boxed(seq) == [i \in 1 .. Len(seq) |-> Str(seq[i])]
Unboxed(arr) == [i \in 1 .. Len(arr) |-> arr[i][2]]

\* ------------------------------------------------------------------ JSON
\* The characters JSON.stringify escapes (of the ones the model types).
Escaped == {"\"", "\\"}

RECURSIVE QuoteChars(_)
QuoteChars(s) ==
  IF \A i \in 1 .. Len(s) : CharAt(s, i) \notin Escaped THEN s
  ELSE LET ch == CharAt(s, 1)
           rest == QuoteChars(SubSeq(s, 2, Len(s)))
       IN IF ch \in Escaped THEN "\\" \o ch \o rest ELSE ch \o rest

\* JSON.stringify of one array slot.
StringifyValue(v) == IF IsStr(v) THEN "\"" \o QuoteChars(v[2]) \o "\"" ELSE "null"

RECURSIVE StringifyItems(_)
StringifyItems(arr) ==
  IF Len(arr) = 0 THEN ""
  ELSE IF Len(arr) = 1 THEN StringifyValue(arr[1])
  ELSE StringifyValue(arr[1]) \o "," \o StringifyItems(Tail(arr))

\* JSON.stringify of an array of strings (null and holes print as null).
JSONstringify(arr) == "[" \o StringifyItems(arr) \o "]"

\* The backslashes that end just before position j, counted back to i.
BackslashRun(s, i, j) ==
  Cardinality({k \in i .. j - 1 : \A m \in k .. j - 1 : CharAt(s, m) = "\\"})

\* The quotes from position i on that no backslash escapes.
ClosingQuotes(s, i) ==
  {j \in i .. Len(s) :
     /\ CharAt(s, j) = "\""
     /\ (j = i \/ CharAt(s, j - 1) # "\\" \/ BackslashRun(s, i, j) % 2 = 0)}

\* The first of the positions S.
Min(S) == CHOOSE x \in S : \A y \in S : x <= y

\* The text of the escaped characters s: [ok, val].
RECURSIVE Unescape(_, _)
Unescape(s, acc) ==
  IF \A i \in 1 .. Len(s) : CharAt(s, i) # "\\" THEN [ok |-> TRUE, val |-> acc \o s]
  ELSE IF CharAt(s, 1) # "\\" THEN Unescape(SubSeq(s, 2, Len(s)), acc \o CharAt(s, 1))
  ELSE IF Len(s) >= 2 /\ CharAt(s, 2) \in Escaped
    THEN Unescape(SubSeq(s, 3, Len(s)), acc \o CharAt(s, 2))
  ELSE [ok |-> FALSE, val |-> ""]

\* The string u that ends at the closing quote j.
StringUpTo(j, u) == [ok |-> u.ok, val |-> u.val, next |-> j + 1]

ClosedAt(s, i, j) == StringUpTo(j, Unescape(SubSeq(s, i, j - 1), ""))

\* The characters of a JSON string from position i (just after the opening
\* quote): [ok, val, next], next being the position after the closing quote.
ParseChars(s, i) ==
  IF ClosingQuotes(s, i) = {} THEN [ok |-> FALSE, val |-> "", next |-> i]
  ELSE ClosedAt(s, i, Min(ClosingQuotes(s, i)))

\* A parsed string r as an array slot.
StrSlot(r) == [ok |-> r.ok, val |-> Str(r.val), next |-> r.next]

\* One array slot at position i: a string or null.
ParseValue(s, i) ==
  IF i <= Len(s) /\ CharAt(s, i) = "\""
    THEN StrSlot(ParseChars(s, i + 1))
  ELSE IF i + 3 <= Len(s) /\ SubSeq(s, i, i + 3) = "null"
    THEN [ok |-> TRUE, val |-> Null, next |-> i + 4]
  ELSE [ok |-> FALSE, val |-> Null, next |-> i]

\* The slots of an array from position i, up to and including the "]";
\* AfterValue continues after the slot v.
RECURSIVE ParseItems(_, _, _)
RECURSIVE AfterValue(_, _, _)
AfterValue(s, acc, v) ==
  IF ~v.ok THEN [ok |-> FALSE, val |-> <<>>, next |-> v.next]
  ELSE IF v.next > Len(s) THEN [ok |-> FALSE, val |-> <<>>, next |-> v.next]
  ELSE IF CharAt(s, v.next) = "]"
    THEN [ok |-> TRUE, val |-> Append(acc, v.val), next |-> v.next + 1]
  ELSE IF CharAt(s, v.next) = ","
    THEN ParseItems(s, v.next + 1, Append(acc, v.val))
  ELSE [ok |-> FALSE, val |-> <<>>, next |-> v.next]

ParseItems(s, i, acc) == AfterValue(s, acc, ParseValue(s, i))

\* The parse is an array when it consumed the whole text s.
WholeArray(s, r) ==
  IF r.ok /\ r.next = Len(s) + 1 THEN [kind |-> "array", val |-> r.val]
  ELSE [kind |-> "error", val |-> <<>>]

\* JSON.parse of the text s.
ParseText(s) ==
  IF s = "null" THEN [kind |-> "null", val |-> <<>>]
  ELSE IF s = "[]" THEN [kind |-> "array", val |-> <<>>]
  ELSE IF Len(s) >= 2 /\ CharAt(s, 1) = "[" THEN WholeArray(s, ParseItems(s, 2, <<>>))
  ELSE [kind |-> "error", val |-> <<>>]

\* JSON.parse on the texts the board can meet: null, or an array of strings
\* and nulls; every other text, and undefined (an absent key, <<>>), is a
\* SyntaxError.  The result is [kind |-> "array" | "null" | "error", val].
JSONparse(data) ==
  IF data = <<>> THEN [kind |-> "error", val |-> <<>>] ELSE ParseText(data[1])

\* ----------------------------------------------------------- localStorage
\* A slot is <<>> (the key is absent) or <<text>>.  Slot c holds the key
\* arrayNames[c + 1] \o "Items".
NoItem == <<>>
EmptyStore == [c \in Cols |-> NoItem]
NSlots == Len(arrayNames)

\* The catch block of safeJSONParse: a SyntaxError becomes null.
Caught(r) ==
  IF r.kind = "error" THEN [kind |-> "null", val |-> <<>>, threw |-> FALSE]
  ELSE [kind |-> r.kind, val |-> r.val, threw |-> FALSE]

\* JSON.parse without the try/catch: a SyntaxError propagates.
unsafeJSONParse(data) ==
  [kind |-> JSONparse(data).kind, val |-> JSONparse(data).val,
   threw |-> JSONparse(data).kind = "error"]

\* JSON.parse inside try/catch: the parsed value, or null on a SyntaxError.
safeJSONParse(data) == Caught(JSONparse(data))

\* safeJSONParse(x) || []
OrEmpty(r) == IF r.kind = "array" THEN r.val ELSE <<>>

\* The first key tested for a non-empty array instead of for presence.
HasFirstKeyNonEmpty(store) == store[0] # NoItem /\ store[0][1] \notin {"", "[]"}

\* localStorage.getItem("backlogItems") is truthy.
HasFirstKey(store) == store[0] # NoItem /\ store[0][1] # ""

SeedArrays == [c \in Cols |-> Boxed(SeedBoard[c])]

\* The slots whose parse logs an error (console.error in safeJSONParse).
ParseErrors(store) == {c \in Cols : JSONparse(store[c]).kind = "error"}

\* The arrays getSavedColumns assigns, parsed[c] being safeJSONParse of slot
\* c.  readFails: the access to localStorage throws (storage disabled).  An
\* exception inside the try block ends in the catch block's seed board.
\* errors counts the calls of console.error.
Loaded(parsed, hasFirstKey, readFails, parseErrors) ==
  IF readFails \/ (hasFirstKey /\ \E c \in Cols : parsed[c].threw)
    THEN [arrays |-> SeedArrays, threw |-> FALSE, errors |-> 1, readFailed |-> readFails]
  ELSE IF hasFirstKey
    THEN [arrays |-> [c \in Cols |-> OrEmpty(parsed[c])], threw |-> FALSE,
          errors |-> parseErrors, readFailed |-> FALSE]
  ELSE [arrays |-> SeedArrays, threw |-> FALSE, errors |-> 0, readFailed |-> FALSE]

\* getSavedColumns: the four arrays read from the store, or the seed board.
getSavedColumns(store, readFails) ==
  Loaded([c \in Cols |-> safeJSONParse(store[c])], HasFirstKey(store), readFails,
         Cardinality(ParseErrors(store)))

\* updateSavedColumns saving the arrays the last handler left.
updateSavedColumnsStale(arrays, store, k) ==
  [c \in Cols |-> IF c < k THEN <<JSONstringify(Boxed(listArrays[c]))>> ELSE store[c]]

\* updateSavedColumns: setItem for each column in order; the first k writes
\* succeed, write k + 1 throws (quota) and ends the forEach.
updateSavedColumns(arrays, store, k) ==
  [c \in Cols |-> IF c < k THEN <<JSONstringify(arrays[c])>> ELSE store[c]]

\* filterArray: Array.prototype.filter skips holes; the callback drops null.
filterArray(array) == SelectSeq(array, LAMBDA item : item # Hole /\ item # Null)

\* validateItemText without the test for a blank text.
validateItemTextNoBlank(text) ==
  IF Len(text) > MAX_CHARS THEN [valid |-> FALSE, alerted |-> TRUE]
  ELSE [valid |-> TRUE, alerted |-> FALSE]

\* validateItemText without the length limit.
validateItemTextNoLimit(text) ==
  IF Len(Trim(text)) = 0 THEN [valid |-> FALSE, alerted |-> FALSE]
  ELSE [valid |-> TRUE, alerted |-> FALSE]

\* validateItemText: [valid, alerted]
validateItemText(text) ==
  IF Len(text) > MAX_CHARS THEN [valid |-> FALSE, alerted |-> TRUE]
  ELSE IF Len(Trim(text)) = 0 THEN [valid |-> FALSE, alerted |-> FALSE]
  ELSE [valid |-> TRUE, alerted |-> FALSE]

\* ------------------------------------------------------------------- DOM
\* createItemEl: the <li> of an item.  id and column are the arguments its
\* onfocusout attribute passes to updateItem.  textContent = null is "".
createItemEl(column, item, index) ==
  [textContent |-> IF IsStr(item) THEN item[2] ELSE "",
   id |-> index,
   column |-> column]

\* array.forEach((item, index) => createItemEl(...)): holes are skipped and
\* index is the slot's own index.
RECURSIVE RenderFrom(_, _, _)
RenderFrom(column, array, i) ==
  IF i > Len(array) THEN <<>>
  ELSE IF array[i] = Hole THEN RenderFrom(column, array, i + 1)
  ELSE <<createItemEl(column, array[i], i - 1)>> \o RenderFrom(column, array, i + 1)

\* A forEach that visits the deleted slots too.
RenderColumnWithHoles(column, array) ==
  [i \in 1 .. Len(array) |-> createItemEl(column, array[i], i - 1)]

RenderColumn(column, array) == RenderFrom(column, array, 1)

\* updateDOM saving before it renders: a failed write leaves the lists
\* as they were.
SaveThenRender(src, filtered, store, k, errors, readFailed) ==
  [dom |-> IF k < NSlots THEN listColumns ELSE [c \in Cols |-> RenderColumn(c, src[c])],
   arrays |-> filtered,
   store |-> updateSavedColumns(filtered, store, k),
   writes |-> k, threw |-> FALSE,
   errors |-> errors + (IF k < NSlots THEN 1 ELSE 0), readFailed |-> readFailed]

\* The rest of updateDOM on the arrays src: render, filter, save.  A failed
\* write is logged (console.error in updateSavedColumns).
RenderAndSave(src, filtered, store, k, errors, readFailed) ==
  [dom |-> [c \in Cols |-> RenderColumn(c, src[c])],
   arrays |-> filtered,
   store |-> updateSavedColumns(filtered, store, k),
   writes |-> k, threw |-> FALSE,
   errors |-> errors + (IF k < NSlots THEN 1 ELSE 0), readFailed |-> readFailed]

FilterAndSave(src, store, k, errors, readFailed) ==
  RenderAndSave(src, [c \in Cols |-> filterArray(src[c])], store, k, errors, readFailed)

\* updateDOM on the first call: an exception of the load leaves the lists
\* and the store as they were.
FirstUpdate(load, store, k) ==
  IF load.threw
    THEN [dom |-> [c \in Cols |-> <<>>], arrays |-> [c \in Cols |-> <<>>],
          store |-> store, writes |-> 0, threw |-> TRUE,
          errors |-> load.errors, readFailed |-> load.readFailed]
    ELSE FilterAndSave(load.arrays, store, k, load.errors, load.readFailed)

\* updateDOM reading the store on every call.
updateDOMAlwaysLoads(arrays, loaded, store, readFails, k) ==
  FirstUpdate(getSavedColumns(store, readFails), store, k)

\* updateDOM: load once, render the four lists, filter, save.
updateDOM(arrays, loaded, store, readFails, k) ==
  IF ~loaded THEN FirstUpdate(getSavedColumns(store, readFails), store, k)
  ELSE FilterAndSave(arrays, store, k, 0, FALSE)

TextsOf(children) == [i \in 1 .. Len(children) |-> children[i].textContent]

\* array[index] = value, also past the end (the gap is holes).
SetAt(array, index, value) ==
  [i \in 1 .. (IF index + 1 > Len(array) THEN index + 1 ELSE Len(array)) |->
     IF i = index + 1 THEN value
     ELSE IF i <= Len(array) THEN array[i] ELSE Hole]

RemoveAt(seq, index) ==
  [i \in 1 .. Len(seq) - 1 |-> IF i <= index THEN seq[i] ELSE seq[i + 1]]

\* ------------------------------------------------------------ drag state
Undefined == -1

\* dragging: the drag gesture that picked the element up is still going on
\* (between the element's dragstart and its drop or dragend).
NoDrag ==
  [kind |-> "undefined", col |-> Undefined, pos |-> Undefined, textContent |-> "",
   dragging |-> FALSE]
Attached(c, p) ==
  [kind |-> "attached", col |-> c, pos |-> p, textContent |-> "", dragging |-> TRUE]
Detached(t, g) ==
  [kind |-> "detached", col |-> Undefined, pos |-> Undefined, textContent |-> t,
   dragging |-> g]

\* What the variable draggedItem refers to once the lists `children` are
\* emptied (list.textContent = ""): the element stays alive, outside the page.
Removed(d, children) ==
  IF d.kind = "attached"
    THEN Detached(children[d.col][d.pos + 1].textContent, d.dragging)
    ELSE d

Op(op, col, pos, idx, text, target, dragSource, rendered, writes, threw, alerted) ==
  [op |-> op, col |-> col, pos |-> pos, idx |-> idx, text |-> text,
   target |-> target, dragSource |-> dragSource, rendered |-> rendered,
   writes |-> writes, threw |-> threw, alerted |-> alerted,
   errors |-> IF rendered /\ writes < NSlots THEN 1 ELSE 0, readFailed |-> FALSE]

\* The state a finished updateDOM (its result r) leaves.
BoardOf(r) == [c \in Cols |-> Unboxed(r.arrays[c])]

Updated(r) ==
  /\ listArrays' = BoardOf(r)
  /\ listColumns' = r.dom
  /\ localStorage' = r.store
  /\ updatedOnLoad' = ~r.threw

LoadOp(r) ==
  [Op("load", Undefined, Undefined, Undefined, "", Undefined,
      FALSE, ~r.threw, r.writes, r.threw, FALSE)
   EXCEPT !.errors = r.errors, !.readFailed = r.readFailed]

Started(r) ==
  /\ Updated(r)
  /\ draggedItem' = NoDrag
  /\ currentColumn' = Undefined
  /\ lastOp' = LoadOp(r)

\* The script's top level on a page whose store is `store`: the globals are
\* initialised and updateDOM() runs.
ScriptLoad(store, readFails, k) ==
  Started(updateDOM([c \in Cols |-> <<>>], FALSE, store, readFails, k))

FirstVisit(r) ==
  /\ listArrays = BoardOf(r)
  /\ listColumns = r.dom
  /\ localStorage = r.store
  /\ updatedOnLoad = TRUE
  /\ draggedItem = NoDrag
  /\ currentColumn = Undefined
  /\ lastOp = LoadOp(r)
  /\ ops = 0

\* The first visit: nothing stored, the script has run.
Init == FirstVisit(updateDOM([c \in Cols |-> <<>>], FALSE, EmptyStore, FALSE, NSlots))

\* A handler's call of updateDOM() on the arrays `arrays`.
Rerender(arrays, k) == Updated(updateDOM(arrays, updatedOnLoad, localStorage, FALSE, k))

\* -------------------------------------------------------------- handlers
\* The element at position pos of column c is the drag source.
IsDragSource(c, pos) ==
  draggedItem.kind = "attached" /\ draggedItem.col = c /\ draggedItem.pos = pos

\* selectedColumnEl[index] === draggedItem, selectedColumnEl being the
\* children of column `column`; both are undefined when index is past the
\* end and nothing was dragged yet.
GuardSkips(index, column) ==
  IF index < Len(listColumns[column])
    THEN IsDragSource(column, index)
    ELSE draggedItem.kind = "undefined"

\* The arrays after updateItem's delete or assignment of slot index of
\* column `column`, read from the element with that index.
Edited(index, column) ==
  LET shown == listColumns[column][index + 1].textContent
      selectedArray == Boxed(listArrays[column])
      changed == IF shown = "" THEN SetAt(selectedArray, index, Hole)
                 ELSE SetAt(selectedArray, index, Str(shown))
  IN [x \in Cols |-> IF x = column THEN changed ELSE Boxed(listArrays[x])]

\* updateItem(index, column), fired by the focusout of the element at
\* position pos of column c.
updateItem(index, column, c, pos, k) ==
  LET children == listColumns[column]
      text == listColumns[c][pos + 1].textContent
      src == IsDragSource(c, pos)
  IN IF GuardSkips(index, column)
       THEN /\ lastOp' = Op("focusout", c, pos, index, text, column, src,
                            FALSE, 0, FALSE, FALSE)
            /\ UNCHANGED <<listArrays, listColumns, localStorage, updatedOnLoad,
                           draggedItem>>
     ELSE IF index >= Len(children)
       \* selectedColumnEl[index] is undefined: reading .textContent throws
       THEN /\ lastOp' = Op("focusout", c, pos, index, text, column, src,
                            FALSE, 0, TRUE, FALSE)
            /\ UNCHANGED <<listArrays, listColumns, localStorage, updatedOnLoad,
                           draggedItem>>
     ELSE /\ Rerender(Edited(index, column), k)
          /\ draggedItem' = Removed(draggedItem, listColumns)
          /\ lastOp' = Op("focusout", c, pos, index, text, column, src,
                          TRUE, k, FALSE, FALSE)

\* The input listener of an item: the edit left `typed` in the element.
InputListener(c, pos, typed) ==
  LET over == Len(typed) > MAX_CHARS
      text == IF over THEN Substring0(typed, MAX_CHARS) ELSE typed
  IN /\ listColumns' = [listColumns EXCEPT ![c][pos + 1].textContent = text]
     /\ lastOp' = Op("input", c, pos, listColumns[c][pos + 1].id, text, Undefined,
                     IsDragSource(c, pos), FALSE, 0, FALSE, over)
     /\ UNCHANGED <<listArrays, localStorage, updatedOnLoad, draggedItem>>

AddOp(column, typed, k, v) ==
  Op("add", column, Undefined, Undefined, typed, column, FALSE, TRUE, k, FALSE, v.alerted)

\* The arrays after the push of item when v says it is valid.
Pushed(column, item, v) ==
  [x \in Cols |-> IF x = column /\ v.valid THEN Append(Boxed(listArrays[x]), Str(item))
                  ELSE Boxed(listArrays[x])]

\* addToColumn without the trim of the typed text.
addToColumnRaw(column, typed, k) ==
  /\ Rerender(Pushed(column, typed, validateItemText(typed)), k)
  /\ draggedItem' = Removed(draggedItem, listColumns)
  /\ lastOp' = AddOp(column, typed, k, validateItemText(typed))

\* addToColumn(column), the add box of the column holding `typed`.
addToColumn(column, typed, k) ==
  /\ Rerender(Pushed(column, Trim(typed), validateItemText(Trim(typed))), k)
  /\ draggedItem' = Removed(draggedItem, listColumns)
  /\ lastOp' = AddOp(column, typed, k, validateItemText(Trim(typed)))

\* parent.appendChild(draggedItem): the lists after it.
AppendChild(children, target, d) ==
  LET el == IF d.kind = "attached" THEN children[d.col][d.pos + 1]
            ELSE [textContent |-> d.textContent, id |-> Undefined, column |-> Undefined]
      without == [x \in Cols |->
                    IF d.kind = "attached" /\ x = d.col
                      THEN RemoveAt(children[x], d.pos) ELSE children[x]]
  IN [without EXCEPT ![target] = Append(@, el)]

\* rebuildArrays reading back the target column only.
rebuildArraysTargetOnly(children) ==
  [c \in Cols |-> IF c = currentColumn THEN Boxed(TextsOf(children[c]))
                  ELSE Boxed(listArrays[c])]

\* rebuildArrays: the four arrays read back from the lists `children`.
rebuildArrays(children) == [c \in Cols |-> Boxed(TextsOf(children[c]))]

\* drop: listColumns[undefined] is undefined and appendChild(undefined)
\* throws; both leave the board as it was.
drop(k) ==
  IF currentColumn = Undefined \/ draggedItem.kind = "undefined"
    THEN /\ lastOp' = Op("drop", draggedItem.col, draggedItem.pos, Undefined, "",
                         currentColumn, FALSE, FALSE, 0, TRUE, FALSE)
         /\ UNCHANGED <<listArrays, listColumns, localStorage, updatedOnLoad,
                        draggedItem>>
    ELSE LET children == AppendChild(listColumns, currentColumn, draggedItem)
             text == children[currentColumn][Len(children[currentColumn])].textContent
         IN /\ Rerender(rebuildArrays(children), k)
            /\ draggedItem' = Detached(text, FALSE)
            /\ lastOp' = Op("drop", draggedItem.col, draggedItem.pos, Undefined, text,
                            currentColumn, draggedItem.kind = "attached", TRUE, k,
                            FALSE, FALSE)

\* ---------------------------------------------------------------- events
\* What the user leaves in an item by editing it, and types into an add box.
NewText == "Ship \"v2\""
EditTexts == {"", NewText}
AddTexts == {NewText}

Positions(c) == 0 .. Len(listColumns[c]) - 1

\* The user edits the item at position pos of column c.
Input ==
  \E c \in EditCols : \E pos \in Positions(c) : \E typed \in EditTexts :
    /\ ops < MaxOps
    /\ typed # listColumns[c][pos + 1].textContent
    /\ InputListener(c, pos, typed)
    /\ ops' = ops + 1
    /\ UNCHANGED currentColumn

\* The item at position pos of column c loses the focus.
FocusOut ==
  \E c \in EditCols : \E pos \in Positions(c) :
    /\ updateItem(listColumns[c][pos + 1].id, listColumns[c][pos + 1].column,
                  c, pos, NSlots)
    /\ UNCHANGED <<currentColumn, ops>>

\* drag(e): the user picks up the item at position pos of column c.
DragStart ==
  \E c \in DragCols : \E pos \in Positions(c) :
    /\ draggedItem' = Attached(c, pos)
    /\ lastOp' = Op("dragstart", c, pos, listColumns[c][pos + 1].id,
                    listColumns[c][pos + 1].textContent, Undefined, TRUE,
                    FALSE, 0, FALSE, FALSE)
    /\ UNCHANGED <<listArrays, listColumns, localStorage, updatedOnLoad,
                   currentColumn, ops>>

\* dragEnter(column)
DragEnter ==
  \E column \in EnterCols :
    /\ currentColumn' = column
    /\ lastOp' = Op("dragenter", Undefined, Undefined, Undefined, "", column,
                    FALSE, FALSE, 0, FALSE, FALSE)
    /\ UNCHANGED <<listArrays, listColumns, localStorage, updatedOnLoad,
                   draggedItem, ops>>

\* drop(e)
Drop ==
  /\ ops < MaxOps
  /\ drop(NSlots)
  /\ ops' = ops + 1
  /\ UNCHANGED currentColumn

\* hideInputBox(column): the save button of the column's add box.
Add ==
  \E column \in AddCols : \E typed \in AddTexts :
    /\ ops < MaxOps
    /\ addToColumn(column, typed, NSlots)
    /\ ops' = ops + 1
    /\ UNCHANGED currentColumn

\* The page is loaded again: the script starts over on the store as it is.
PageLoad ==
  /\ ops < MaxOps
  /\ ScriptLoad(localStorage, FALSE, NSlots)
  /\ ops' = ops + 1

Next ==
  \/ Input
  \/ FocusOut
  \/ DragStart
  \/ DragEnter
  \/ Drop
  \/ Add
  \/ PageLoad

Spec == Init /\ [][Next]_vars

\* ------------------------------------------------- texts of every length
\* The add box and the inline edit with texts around the limits: blank,
\* padded, exactly MAX_CHARS and one more.
LongText == Repeat("x", MAX_CHARS)
AnyAddTexts == {NewText, "  " \o NewText \o " ", "", "   ", LongText \o "x",
                " " \o LongText, "x"}
AnyEditTexts == {"", " ", NewText, LongText \o "x"}

AddAny ==
  \E column \in Cols : \E typed \in AnyAddTexts :
    /\ ops < MaxOps
    /\ addToColumn(column, typed, NSlots)
    /\ ops' = ops + 1
    /\ UNCHANGED currentColumn

InputAny ==
  \E c \in EditCols : \E pos \in Positions(c) : \E typed \in AnyEditTexts :
    /\ ops < MaxOps
    /\ typed # listColumns[c][pos + 1].textContent
    /\ InputListener(c, pos, typed)
    /\ ops' = ops + 1
    /\ UNCHANGED currentColumn

NextText ==
  \/ AddAny
  \/ InputAny
  \/ FocusOut

SpecText == Init /\ [][NextText]_vars

\* --------------------------------------------------- a store found as is
\* What a slot may hold when the page is opened: nothing, the empty text, a
\* cut-off array, arrays of strings (one with a null), and null.
SlotValues ==
  {NoItem, <<"">>, <<"[\"Ship v2\"">>, <<"[]">>, <<"[\"Ship v2\"]">>,
   <<"[null,\"Ship \\\"v2\\\"\"]">>, <<"null">>}

\* The page before its script has run.
InitLoad ==
  /\ localStorage \in [Cols -> SlotValues]
  /\ listArrays = [c \in Cols |-> <<>>]
  /\ listColumns = [c \in Cols |-> <<>>]
  /\ updatedOnLoad = FALSE
  /\ draggedItem = NoDrag
  /\ currentColumn = Undefined
  /\ lastOp = Op("none", Undefined, Undefined, Undefined, "", Undefined,
                 FALSE, FALSE, 0, FALSE, FALSE)
  /\ ops = 0

\* The script runs; the access to localStorage may throw.
FirstLoad ==
  \E readFails \in BOOLEAN :
    /\ ~updatedOnLoad
    /\ ops = 0
    /\ ScriptLoad(localStorage, readFails, NSlots)
    /\ ops' = ops + 1

SpecLoad == InitLoad /\ [][FirstLoad]_vars

\* ------------------------------------------------ drags that are given up
\* The dragend listener of the dragged element: the gesture is over (the
\* item was let go outside every column); draggedItem keeps its value.
DragEnd ==
  /\ draggedItem.dragging
  /\ draggedItem' = [draggedItem EXCEPT !.dragging = FALSE]
  /\ lastOp' = Op("dragend", draggedItem.col, draggedItem.pos, Undefined, "",
                  Undefined, FALSE, FALSE, 0, FALSE, FALSE)
  /\ UNCHANGED <<listArrays, listColumns, localStorage, updatedOnLoad,
                 currentColumn, ops>>

NextDrag ==
  \/ Input
  \/ FocusOut
  \/ DragStart
  \/ DragEnd
  \/ Drop
  \/ DragEnter

SpecDrag == Init /\ [][NextDrag]_vars

\* ------------------------------------------------- a store that may fail
\* How many of the four writes of a save succeed before setItem throws
\* (quota exceeded, storage disabled): none, the first only, or all.
WriteCounts == {0, 1, NSlots}

\* A focus loss whose save may fail; it counts as a gesture.
FocusOutK ==
  \E c \in EditCols : \E pos \in Positions(c) : \E k \in WriteCounts :
    /\ ops < MaxOps
    /\ updateItem(listColumns[c][pos + 1].id, listColumns[c][pos + 1].column,
                  c, pos, k)
    /\ ops' = ops + 1
    /\ UNCHANGED currentColumn

DropK ==
  \E k \in WriteCounts :
    /\ ops < MaxOps
    /\ drop(k)
    /\ ops' = ops + 1
    /\ UNCHANGED currentColumn

AddK ==
  \E column \in AddCols : \E typed \in AddTexts : \E k \in WriteCounts :
    /\ ops < MaxOps
    /\ addToColumn(column, typed, k)
    /\ ops' = ops + 1
    /\ UNCHANGED currentColumn

PageLoadK ==
  \E k \in WriteCounts :
    /\ ops < MaxOps
    /\ ScriptLoad(localStorage, FALSE, k)
    /\ ops' = ops + 1

NextQuota ==
  \/ Input
  \/ FocusOutK
  \/ DragStart
  \/ DragEnter
  \/ DropK
  \/ AddK
  \/ PageLoadK

SpecQuota == Init /\ [][NextQuota]_vars

\* ================================================================ claims
\* The persisted value of column c is the array seq.
Persisted(store, c, seq) == JSONparse(store[c]) = [kind |-> "array", val |-> Boxed(seq)]

\* The step is the focusout handler, fired on an element that is not the
\* drag source.
EditCommitted == lastOp'.op = "focusout" /\ ~lastOp'.dragSource

\* C1: committing an edit (focus loss) on the element at position i of
\* column c whose text is now empty removes exactly element i from c's
\* sequence and leaves the other three sequences unchanged.
C1_DeleteByEmpty ==
  [][(EditCommitted /\ lastOp'.text = "")
       => listArrays' = [listArrays EXCEPT ![lastOp'.col] = RemoveAt(@, lastOp'.pos)]]_vars

\* C2: committing an edit on the element at position i of column c with a
\* non-empty text sets element i of c's sequence to that text and leaves
\* every other element of every column unchanged.
C2_EditReplaces ==
  [][(EditCommitted /\ lastOp'.text # "")
       => listArrays' = [listArrays EXCEPT ![lastOp'.col][lastOp'.pos + 1] = lastOp'.text]]_vars

\* The step is a drop of an element of list A (draggedItem) on another
\* column B (currentColumn).
MovedAcross ==
  /\ lastOp'.op = "drop"
  /\ draggedItem.kind = "attached"
  /\ currentColumn # Undefined
  /\ currentColumn # draggedItem.col

C4_AddAppendsTrimmed ==
  [][(lastOp'.op = "add" /\ Len(Trim(lastOp'.text)) >= 1
        /\ Len(Trim(lastOp'.text)) <= MAX_CHARS)
       => /\ listArrays' = [listArrays EXCEPT ![lastOp'.col] = Append(@, Trim(lastOp'.text))]
          /\ Persisted(localStorage', lastOp'.col, listArrays'[lastOp'.col])]_vars

\* A padded text was added to the progress column: its last item is the
\* trimmed text.
C4_Witness ==
  /\ lastOp.op = "add" /\ lastOp.col = 1
  /\ lastOp.text = "  " \o NewText \o " "
  /\ listArrays[1] = Append(SeedBoard[1], NewText)
  /\ Persisted(localStorage, 1, listArrays[1])

\* Each column's rendered list, sequence and persisted slot agree.
Consistent ==
  \A c \in Cols :
    /\ TextsOf(listColumns[c]) = listArrays[c]
    /\ Persisted(localStorage, c, listArrays[c])

\* C5 as stated: when a handler for a create, an edit commit, a
\* delete-by-empty or a drop returns, list, sequence and slot of every column
\* agree.
C5_ConsistentOnReturn ==
  (lastOp.op \in {"add", "focusout", "drop"} /\ ~lastOp.threw) => Consistent

\* C5 as amended: when a handler that reached updateDOM (render, then
\* persist) returns, list, sequence and slot of every column agree.
C5_ConsistentAfterRender == lastOp.rendered => Consistent

\* An edit commit has replaced the first backlog item and rendered.
C5_Witness ==
  /\ lastOp.op = "focusout" /\ lastOp.rendered /\ lastOp.col = 0 /\ lastOp.pos = 0
  /\ lastOp.text = NewText
  /\ listArrays[0] = <<NewText, SeedBoard[0][2]>>
  /\ TextsOf(listColumns[0]) = listArrays[0]

\* The board a fresh load builds from the store.
FreshLoad(store) == BoardOf(updateDOM([c \in Cols |-> <<>>], FALSE, store, FALSE, NSlots))

\* C6: the board saved in the four slots is the board a fresh load yields,
\* also when the first column is empty.
C6_RoundTrip == FreshLoad(localStorage) = listArrays

\* The page was loaded again after an item with quotes was added: the
\* board is the one saved.
C6_Witness ==
  /\ lastOp.op = "load" /\ ops = 2
  /\ listArrays[0] = Append(SeedBoard[0], NewText)
  /\ FreshLoad(localStorage) = listArrays

\* The strings of a parsed slot.
StringsIn(r) == IF r.kind = "array" THEN SelectSeq(r.val, IsStr) ELSE <<>>

\* What a slot holds, read as a column: the strings of a well-formed array,
\* nothing otherwise.
StoredStrings(slot) == Unboxed(StringsIn(JSONparse(slot)))

Missing(store) == store[0] = NoItem
Corrupt(store) == \E c \in Cols : store[c] # NoItem /\ JSONparse(store[c]).kind = "error"

C8_NoEmptyItem ==
  \A c \in Cols :
    /\ \A i \in 1 .. Len(listArrays[c]) : listArrays[c][i] # ""
    /\ \A i \in 1 .. Len(StoredStrings(localStorage[c])) :
         StoredStrings(localStorage[c])[i] # ""

\* C9: a focus-loss commit fired on the element that is the drag source
\* changes no sequence, re-renders nothing and writes nothing.
C9_DragSourceEditSkipped ==
  [][(lastOp'.op = "focusout" /\ lastOp'.dragSource)
       => /\ ~lastOp'.rendered
          /\ lastOp'.writes = 0
          /\ listArrays' = listArrays
          /\ listColumns' = listColumns
          /\ localStorage' = localStorage]_vars

\* C10: every item of every column has a trimmed length of 1 to 100.
C10_ItemsWithinLimits ==
  \A c \in Cols : \A i \in 1 .. Len(listArrays[c]) :
    /\ Len(Trim(listArrays[c][i])) >= 1
    /\ Len(Trim(listArrays[c][i])) <= MAX_CHARS

\* The step is an add that leaves the board and the store as they were.
AddChangesNothing == listArrays' = listArrays /\ localStorage' = localStorage

\* C11 as stated: an add of a text of more than 100 characters is rejected:
\* the user is warned and the four sequences and the four slots are the same
\* after the call as before it.
C11_LongAddRejected ==
  [][(lastOp'.op = "add" /\ Len(lastOp'.text) > MAX_CHARS)
       => (lastOp'.alerted /\ AddChangesNothing)]_vars

\* C11 as amended: an add of a text whose trimmed length is more than 100
\* characters is rejected: the user is warned and the four sequences and the
\* four slots are the same after the call as before it.
C11_LongTrimmedAddRejected ==
  [][(lastOp'.op = "add" /\ Len(Trim(lastOp'.text)) > MAX_CHARS)
       => (lastOp'.alerted /\ AddChangesNothing)]_vars

\* A text of 101 characters was typed into the add box of the complete
\* column: the user was warned and the board is the seed board.
C11_Witness ==
  /\ lastOp.op = "add" /\ lastOp.col = 2 /\ lastOp.text = LongText \o "x"
  /\ lastOp.alerted
  /\ listArrays = SeedBoard

\* C12: an add of a text that is empty after trimming is a silent no-op: no
\* warning is shown and the four sequences keep their length and contents.
C12_BlankAddIsNoOp ==
  [][(lastOp'.op = "add" /\ Trim(lastOp'.text) = "")
       => (~lastOp'.alerted /\ listArrays' = listArrays)]_vars

\* After an item was added to the backlog, three spaces were typed into the
\* add box of the on-hold column: no warning, the board as it was.
C12_Witness ==
  /\ lastOp.op = "add" /\ lastOp.col = 3 /\ lastOp.text = "   "
  /\ ~lastOp.alerted
  /\ listArrays = [SeedBoard EXCEPT ![0] = Append(@, NewText)]

\* The persisted slots are not the board in memory.
Stale == \E c \in Cols : ~Persisted(localStorage, c, listArrays[c])

\* The arrays the handler of the step has changed, before its updateDOM().
Mutated ==
  CASE lastOp'.op = "add" ->
         Pushed(lastOp'.col, Trim(lastOp'.text), validateItemText(Trim(lastOp'.text)))
    [] lastOp'.op = "drop" ->
         rebuildArrays(AppendChild(listColumns, currentColumn, draggedItem))
    [] lastOp'.op = "focusout" -> Edited(lastOp'.idx, lastOp'.target)
    [] OTHER -> getSavedColumns(localStorage, FALSE).arrays

\* What the step's updateDOM() yields when every write succeeds.
Outcome(arrays) == FilterAndSave(arrays, localStorage, NSlots, 0, FALSE)

\* C13: a handler whose save fails (or that runs after a save has failed)
\* completes without an exception, logs the failure, and leaves the board
\* in memory and the rendered lists as the same handler leaves them when
\* every write succeeds: the mutation applied to the board in memory.
C13_WriteFailureNotFatal ==
  [][(lastOp'.rendered /\ (lastOp'.writes < NSlots \/ Stale))
       => /\ ~lastOp'.threw
          /\ (lastOp'.writes < NSlots => lastOp'.errors >= 1)
          /\ updatedOnLoad'
          /\ listArrays' = BoardOf(Outcome(Mutated))
          /\ listColumns' = Outcome(Mutated).dom
          /\ \A c \in Cols : TextsOf(listColumns'[c]) = listArrays'[c]]_vars

\* An add whose save failed at the first write, after an add whose save
\* failed too: both items are in memory and in the list, none in the store.
C13_Witness ==
  /\ lastOp.op = "add" /\ lastOp.writes = 0 /\ ops = 2
  /\ listArrays[0] = SeedBoard[0] \o <<NewText, NewText>>
  /\ TextsOf(listColumns[0]) = listArrays[0]
  /\ Persisted(localStorage, 0, SeedBoard[0])

\* What the user sees of the lists r.dom: the texts of each column, in order.
Visible(r) == [c \in Cols |-> TextsOf(r.dom[c])]

\* C14: for the board a handler holds when it calls render (also the board
\* with a deleted slot right after a delete-by-empty), rendering twice in
\* succession shows the same texts in the same order as rendering once, and
\* that is what the lists show when the handler returns.
C14_RenderIdempotent ==
  [][lastOp'.rendered
       => /\ Visible(Outcome(Outcome(Mutated).arrays)) = Visible(Outcome(Mutated))
          /\ Visible(Outcome(Mutated)) = [c \in Cols |-> TextsOf(listColumns'[c])]]_vars

\* A delete-by-empty has rendered the backlog from the array with the
\* deleted slot: the list shows the one remaining item.
C14_Witness ==
  /\ lastOp.op = "focusout" /\ lastOp.rendered /\ lastOp.text = ""
  /\ listArrays[0] = <<SeedBoard[0][2]>>
  /\ TextsOf(listColumns[0]) = <<SeedBoard[0][2]>>
  /\ listColumns[0][1].id = 1

\* C15: the index in the id (and in the focus-loss callback) of every
\* rendered element is its position among the children of its list, and,
\* when the handler that returned has rendered, the index of its text in
\* the column's sequence.
C15_IdIsPosition ==
  \A c \in Cols : \A i \in 1 .. Len(listColumns[c]) :
    /\ listColumns[c][i].id = i - 1
    /\ listColumns[c][i].column = c
    /\ lastOp.rendered =>
         (i <= Len(listArrays[c]) /\ listArrays[c][i] = listColumns[c][i].textContent)

\* The number of items of a board.
Total(board) == Len(board[0]) + Len(board[1]) + Len(board[2]) + Len(board[3])

\* The step is a drop with a dragged element and an entered column.
Dropped ==
  lastOp'.op = "drop" /\ currentColumn # Undefined /\ draggedItem.kind # "undefined"

\* The texts of list c without the dragged element.
Others(c) ==
  IF draggedItem.kind = "attached" /\ draggedItem.col = c
    THEN RemoveAt(TextsOf(listColumns[c]), draggedItem.pos)
    ELSE TextsOf(listColumns[c])

\* C16: a drop makes the dragged item the last element of the column passed
\* to the latest dragEnter (also its own column), removes it from where it
\* was (the board keeps its number of items), and leaves the other items of
\* the four columns in their order.
C16_DropAppendsToEntered ==
  [][Dropped =>
       /\ lastOp'.target = currentColumn
       /\ listArrays'[currentColumn] = Append(Others(currentColumn), lastOp'.text)
       /\ \A c \in Cols \ {currentColumn} : listArrays'[c] = Others(c)
       /\ Total(listArrays') = Total([c \in Cols |-> TextsOf(listColumns[c])])]_vars

\* C17: a drop neither duplicates nor loses an item: the board has as many
\* items after the drop as before it.
C17_DropKeepsItemCount ==
  [][Dropped => Total(listArrays') = Total(listArrays)]_vars

\* C18: once the drag gesture has ended (by a drop or by a dragend), a
\* focus-loss commit on a rendered element, the element that was dragged
\* included, is applied to the sequence and persisted.
C18_EditAfterDragApplied ==
  [][(lastOp'.op = "focusout" /\ draggedItem.kind # "undefined"
        /\ ~draggedItem.dragging)
       => /\ lastOp'.rendered
          /\ listArrays'[lastOp'.col] =
               IF lastOp'.text = "" THEN RemoveAt(listArrays[lastOp'.col], lastOp'.pos)
               ELSE [listArrays[lastOp'.col] EXCEPT ![lastOp'.pos + 1] = lastOp'.text]
          /\ Persisted(localStorage', lastOp'.col, listArrays'[lastOp'.col])]_vars

\* The board the four slots hold.
StoredBoard(store) == [c \in Cols |-> StoredStrings(store[c])]

\* C19: a save, also one that fails part-way, leaves in the four slots one
\* board that the memory has held: the board they held before, or the
\* board in memory now; never slots of the one next to slots of the other.
C19_StoreIsOneBoard ==
  [][lastOp'.rendered
       => \/ StoredBoard(localStorage') = StoredBoard(localStorage)
          \/ StoredBoard(localStorage') = listArrays']_vars

\* What render, filter and save yield from the arrays alone, the store
\* holding nothing.
FromMemory(arrays) == FilterAndSave(arrays, EmptyStore, NSlots, 0, FALSE)

\* C20: the store is read by the first render of the script only: every
\* render of a handler (add, edit commit, delete-by-empty, drop) finds
\* updatedOnLoad set and yields the board and the lists of the arrays in
\* memory, whatever the slots hold, and the flag stays set.
C20_StoreReadOnce ==
  [][(lastOp'.rendered /\ lastOp'.op # "load")
       => /\ updatedOnLoad /\ updatedOnLoad'
          /\ listArrays' = BoardOf(FromMemory(Mutated))
          /\ listColumns' = FromMemory(Mutated).dom]_vars

\* A focus loss has rendered after an add that could not be saved: the slot
\* still holds the seed backlog, the memory and the list hold the added item.
C20_Witness ==
  /\ lastOp.op = "focusout" /\ lastOp.rendered /\ lastOp.writes = 0
  /\ listArrays[0] = Append(SeedBoard[0], NewText)
  /\ TextsOf(listColumns[0]) = listArrays[0]
  /\ Persisted(localStorage, 0, SeedBoard[0])

=============================================================================
